---- MODULE Spec2Model ----
(***************************************************************************)
(* The incremental sync engine of hyper-data: api/sync.js (the handler),   *)
(* lib/db.js (the Postgres store) and lib/hyperliquid.js (the upstream     *)
(* client).  One handler invocation is a sequence of steps, one per await  *)
(* of the handler; the process may be killed between any two of them.      *)
(*                                                                         *)
(* Symbols are the integers 1..n: the integer order stands for the order   *)
(* of ORDER BY symbol.  Times are in seconds (the code's milliseconds      *)
(* divided by 1000) because TLC's integers are 32 bits wide.               *)
(***************************************************************************)
EXTENDS Integers, Sequences, FiniteSets, TLC

VARIABLES
    universe,     \* upstream: the symbol list POST /info {type: meta} yields
    upBudget,     \* environment: first attempts the upstream will still reject
    crashBudget,  \* environment: store errors and process kills still to come
    pairs,        \* store: table pairs (the symbol registry), its symbols
    sync_cursor,  \* store: sync_state.value of key 'sync_cursor', or Null
    candles,      \* store: table candles, a set of rows
    pc,           \* per invocation: the await the handler is at
    symbols,      \* per invocation: sync.js `symbols`
    cursor,       \* per invocation: sync.js `cursor`
    batch,        \* per invocation: sync.js `batch`
    nextCursor,   \* per invocation: sync.js `nextCursor`
    endMs,        \* per invocation: sync.js `endMs`
    allRows,      \* per invocation: sync.js `allRows`
    pos,          \* per invocation: loop positions (pair of upsertPairs,
                  \*   symbol and interval of the fetch loop, row of upsertCandles)
    out,          \* per invocation: sync.js `out`
    res,          \* per invocation: what was sent on `res`
    calls,        \* history: the getCandleSnapshot calls of the invocation
    passLog,      \* history: the slices selected since the cursor last read 0
    lastKill,     \* history: the slice of the invocation killed last
    thrown,       \* history: the error that left a step of the invocation
    before,       \* history: table candles when upsertCandles was entered
    metaCalls,    \* history: the statuses the getMeta calls of the invocation got
    registryRead, \* history: the symbols getAllPairs returned to the invocation
    req,          \* per invocation: the cron secret and the authorization
                  \*   header, until line 39 has read them
    lastCall,     \* process: hyperliquid.js `lastCall`, one for all its calls
    clock,        \* environment: Date.now(), in ms
    gate,         \* per invocation: where its client call is in rateLimit()
    starts,       \* history: when the outbound calls of the process started
    probe         \* inputs and results of the pure-function specifications

vars == <<universe, upBudget, crashBudget, pairs, sync_cursor, candles, pc,
          symbols, cursor, batch, nextCursor, endMs, allRows, pos, out, res,
          calls, passLog, lastKill, thrown, before, metaCalls, registryRead,
          req, lastCall, clock, gate, starts, probe>>
storeVars == <<pairs, sync_cursor, candles>>
envVars == <<universe, upBudget, crashBudget>>
localVars == <<symbols, cursor, batch, nextCursor, endMs, allRows, pos, out>>

-----------------------------------------------------------------------------
(* Bounds of the model *)

\* the largest symbol universe the upstream lists
MaxSymbols == 50
\* the largest universe for which the upstream also answers abnormally
SmallUniverse == 3
\* getCandleSnapshot calls the upstream rejects at the first attempt (429 or
\* another non-2xx status) in one behaviour
MaxUpstreamFaults == 1
\* store errors and process kills in one behaviour
MaxCrashes == 1
\* candles in a normal candleSnapshot answer
MaxPoints == 1
\* the clock of the pacing specifications moves by one or two TickMs, up to
\* MaxClock
TickMs == 500
MaxClock == 7000

-----------------------------------------------------------------------------
(* Program constants *)

PAIRS_PER_RUN == 24
BATCH_SIZE == 100
BACKOFF_MS == 15
REST_MIN_MS == 1200
\* Date.now() when the process starts: any time not within REST_MIN_MS of
\* the initial lastCall, 0
ProcessStart == REST_MIN_MS

INTERVALS == <<"1m", "5m", "15m", "30m", "1h", "2h", "4h", "1d", "3d">>

MS_PER_INTERVAL ==
    [g \in {"1m", "5m", "15m", "30m", "1h", "2h", "4h", "1d", "3d"} |->
        CASE g = "1m"  -> 24 * 60 * 60
          [] g = "5m"  -> 7 * 24 * 60 * 60
          [] g = "15m" -> 14 * 24 * 60 * 60
          [] g = "30m" -> 30 * 24 * 60 * 60
          [] g = "1h"  -> 30 * 24 * 60 * 60
          [] g = "2h"  -> 90 * 24 * 60 * 60
          [] g = "4h"  -> 90 * 24 * 60 * 60
          [] g = "1d"  -> 365 * 24 * 60 * 60
          [] g = "3d"  -> 365 * 24 * 60 * 60]

Workers == {1, 2}
Null == "null"
NoResponse == [status |-> 0]
NoSlice == [stage |-> "none"]
GateIdle == [at |-> "idle", wake |-> 0, op |-> "none"]
NoRequest == [secret |-> <<>>, authorization |-> <<"none">>]

\* JavaScript values of the upstream's JSON: a tag and, for a number or a
\* string, its content (a string is its sequence of characters: a digit
\* is the integer 0..9, any other character an integer above 9)
JsNull == <<"null">>
JsUndefined == <<"undefined">>
JsNum(n) == <<"num", n>>
JsStr(s) == <<"str", s>>
\* true and false: the content is 1 or 0
JsBool(b) == <<"bool", b>>

-----------------------------------------------------------------------------
(* JavaScript and SQL helpers *)

Min(a, b) == IF a < b THEN a ELSE b
Max(a, b) == IF a > b THEN a ELSE b
Range(s) == {s[i] : i \in 1..Len(s)}

\* Array.prototype.slice(a, b)
Slice(s, a, b) ==
    LET from == IF a < 0 THEN Max(Len(s) + a, 0) ELSE Min(a, Len(s))
        to   == IF b < 0 THEN Max(Len(s) + b, 0) ELSE Min(b, Len(s))
    IN  IF from >= to THEN <<>> ELSE SubSeq(s, from + 1, to)

\* String(n) of a non-negative integer: its decimal digits
RECURSIVE DigitsOf(_)
DigitsOf(n) == IF n < 10 THEN <<n>> ELSE Append(DigitsOf(n \div 10), n % 10)
StringOf(n) == JsStr(DigitsOf(n))

\* the number the leading decimal digits of a string denote
RECURSIVE ValueOf(_, _)
ValueOf(s, acc) ==
    IF s = <<>> \/ Head(s) \notin 0..9 THEN acc
    ELSE ValueOf(Tail(s), 10 * acc + Head(s))
IsDigits(s) == s # <<>> /\ \A i \in 1..Len(s) : s[i] \in 0..9

\* parseInt(v, 10): NaN unless v is a string that starts with a digit
ParseInt(v) ==
    IF v[1] = "str" /\ v[2] # <<>> /\ Head(v[2]) \in 0..9
    THEN [nan |-> FALSE, val |-> ValueOf(v[2], 0)]
    ELSE [nan |-> TRUE, val |-> 0]
\* Number(v): null is 0, true is 1, false is 0, a string of digits its
\* value, the empty string 0, any other string and undefined NaN
Number(v) ==
    CASE v[1] = "num"  -> [nan |-> FALSE, val |-> v[2]]
      [] v[1] = "null" -> [nan |-> FALSE, val |-> 0]
      [] v[1] = "bool" -> [nan |-> FALSE, val |-> v[2]]
      [] v[1] = "str"  -> IF v[2] = <<>> THEN [nan |-> FALSE, val |-> 0]
                          ELSE IF IsDigits(v[2])
                               THEN [nan |-> FALSE, val |-> ValueOf(v[2], 0)]
                               ELSE [nan |-> TRUE, val |-> 0]
      [] OTHER         -> [nan |-> TRUE, val |-> 0]
\* x || 0 of a number
OrZero(x) == IF x.nan \/ x.val = 0 THEN 0 ELSE x.val
\* (mutant) a || b
FirstTruthy(a, b) ==
    IF a[1] \in {"null", "undefined"} \/ a = JsNum(0) \/ a = JsStr(<<>>)
    THEN b ELSE a
\* a ?? b
Coalesce(a, b) == IF a[1] \in {"null", "undefined"} THEN b ELSE a

\* SELECT symbol FROM pairs ORDER BY symbol
RECURSIVE OrderBySymbol(_)
OrderBySymbol(S) ==
    IF S = {} THEN <<>>
    ELSE LET m == CHOOSE x \in S : \A y \in S : x <= y
         IN  <<m>> \o OrderBySymbol(S \ {m})

-----------------------------------------------------------------------------
(* The upstream API *)

Ascending(n) == [i \in 1..n |-> i]
Descending(n) == [i \in 1..n |-> n + 1 - i]
\* the lists getMeta can return: each instrument once, in the upstream's
\* order, which need not be the order of ORDER BY symbol
Orders(n) == {Ascending(n), Descending(n)}

\* the environments explored: a universe of up to SmallUniverse symbols with
\* an upstream that may answer abnormally and a platform that may fail, a
\* universe of one symbol more than a batch with a platform that may fail,
\* and the largest universe with neither
Scenarios ==
    {[universe |-> u, up |-> MaxUpstreamFaults, crash |-> MaxCrashes] :
        u \in UNION {Orders(n) : n \in 0..SmallUniverse}}
    \cup {[universe |-> u, up |-> 0, crash |-> MaxCrashes] :
        u \in Orders(PAIRS_PER_RUN + 1)}
    \cup {[universe |-> u, up |-> 0, crash |-> 0] : u \in Orders(MaxSymbols)}

\* Date.now()
DateNow == {1790000000, 1790000060}

\* one candle of a candleSnapshot answer: t and T are numbers, the prices and
\* the volume are numeric strings
Candle(coin, j) ==
    [t |-> JsNum(10 * j), T |-> JsNum(10 * j + 9),
     o |-> JsStr(DigitsOf(100 + coin)), h |-> JsStr(DigitsOf(101 + coin)),
     l |-> JsStr(DigitsOf(99 + coin)), c |-> JsStr(DigitsOf(100 + coin)),
     v |-> JsStr(DigitsOf(j))]
\* the answer to candleSnapshot {coin, interval, startTime, endTime}
Snapshot(coin, interval) == [j \in 1..MaxPoints |-> Candle(coin, j)]

\* the message of the Error getCandleSnapshot throws for a non-2xx status
CandleError(status) ==
    IF status = 429 THEN "RATE_LIMIT" ELSE "Hyperliquid candles failed: 500"
\* the message of the Error getMeta throws for a non-2xx status
MetaError(status) ==
    IF status = 429 THEN "Hyperliquid meta failed: 429"
    ELSE "Hyperliquid meta failed: 500"

-----------------------------------------------------------------------------
(* The store *)

Key(r) == <<r.symbol, r.interval, r.ts_ms>>

\* one INSERT ... ON CONFLICT (symbol, interval, ts_ms) DO UPDATE statement
\* is rejected when it names a key twice or a ts_ms that is no BIGINT
StatementOk(rows) ==
    /\ \A i, j \in 1..Len(rows) : Key(rows[i]) = Key(rows[j]) => i = j
    /\ \A i \in 1..Len(rows) : rows[i].ts_ms[1] = "num"
\* the table after the statement: a row with a key of the statement is
\* replaced by the statement's row
UpsertRows(table, rows) ==
    {r \in table : \A i \in 1..Len(rows) : Key(r) # Key(rows[i])}
        \cup Range(rows)

\* getSyncState: r.rows[0]?.value ?? null
GetSyncStateValue(rows) == IF rows = <<>> THEN JsNull ELSE rows[1]

-----------------------------------------------------------------------------
(* sync.js: the pure parts of the handler *)

\* (mutant) a slice that starts one entry late
SelectBatchFromNext(syms, c) == Slice(syms, c + 1, c + 1 + PAIRS_PER_RUN)
\* symbols.slice(cursor, cursor + PAIRS_PER_RUN)
SelectBatch(syms, c) == Slice(syms, c, c + PAIRS_PER_RUN)
\* (mutant) a step of PAIRS_PER_RUN whatever the batch, wrapping late
NextCursorFixedStep(syms, c) ==
    IF c + PAIRS_PER_RUN > Len(syms) THEN 0 ELSE c + PAIRS_PER_RUN
\* (mutant) no wrap-around at the end of the list
NextCursorNeverWraps(syms, c) == c + Len(SelectBatch(syms, c))
\* (mutant) the wrap test with > for >=
NextCursorNoWrapAtEnd(syms, c) ==
    LET b == SelectBatch(syms, c)
    IN  IF c + Len(b) > Len(syms) THEN 0 ELSE c + Len(b)
NextCursor(syms, c) ==
    LET b == SelectBatch(syms, c)
    IN  IF c + Len(b) >= Len(syms) THEN 0 ELSE c + Len(b)
\* parseInt(await getSyncState(pool, 'sync_cursor'), 10) || 0
ReadCursor(rows) == OrZero(ParseInt(GetSyncStateValue(rows)))

\* the rows one answer adds to allRows
RECURSIVE Normalize(_, _, _)
Normalize(symbol, interval, raw) ==
    IF raw = <<>> THEN <<>>
    ELSE LET c == Head(raw)
             t == Coalesce(c.T, c.t)
             rest == Normalize(symbol, interval, Tail(raw))
         IN  IF t[1] \in {"null", "undefined"} THEN rest
             ELSE <<[symbol |-> symbol, interval |-> interval, ts_ms |-> t,
                     open |-> OrZero(Number(c.o)), high |-> OrZero(Number(c.h)),
                     low |-> OrZero(Number(c.l)), close |-> OrZero(Number(c.c)),
                     volume |-> OrZero(Number(c.v))]>> \o rest

\* the request getCandleSnapshot(coin, interval, startTime, endTime) posts
Request(coin, interval, startTime, endTime) ==
    [coin |-> coin, interval |-> interval, startTime |-> startTime,
     endTime |-> endTime]

-----------------------------------------------------------------------------
(* The initial state: empty tables, no invocation running *)

NoPos == [pj |-> 0, si |-> 0, ii |-> 0, i |-> 0]
NoOut == [ok |-> TRUE]

IdleWorkers ==
    /\ pc = [p \in Workers |-> "idle"]
    /\ symbols = [p \in Workers |-> <<>>]
    /\ cursor = [p \in Workers |-> 0]
    /\ batch = [p \in Workers |-> <<>>]
    /\ nextCursor = [p \in Workers |-> 0]
    /\ endMs = [p \in Workers |-> 0]
    /\ allRows = [p \in Workers |-> <<>>]
    /\ pos = [p \in Workers |-> NoPos]
    /\ out = [p \in Workers |-> NoOut]
    /\ res = [p \in Workers |-> NoResponse]
    /\ calls = [p \in Workers |-> <<>>]
    /\ thrown = [p \in Workers |-> Null]
    /\ before = [p \in Workers |-> {}]
    /\ metaCalls = [p \in Workers |-> <<>>]
    /\ registryRead = [p \in Workers |-> <<>>]
    /\ req = [p \in Workers |-> NoRequest]
    /\ lastCall = 0
    /\ clock = ProcessStart
    /\ gate = [p \in Workers |-> GateIdle]
    /\ starts = <<>>
    /\ passLog = <<>>
    /\ lastKill = NoSlice

Init ==
    /\ \E s \in Scenarios :
          /\ universe = s.universe
          /\ upBudget = s.up
          /\ crashBudget = s.crash
    /\ pairs = {}
    /\ sync_cursor = <<>>
    /\ candles = {}
    /\ IdleWorkers
    /\ probe = <<>>

-----------------------------------------------------------------------------
(* sync.js: the handler, one action per await *)

\* (mutant) getPool() called before the try statement
TryBlockAfterGetPool == 50..118

\* the statements of the try block of lines 48-119
TryBlock == 49..118

\* the outer catch, lines 119-122: out.ok = false, out.error = e.message,
\* status 500
Catch(p, message) ==
    /\ out' = [out EXCEPT ![p] = [@ EXCEPT !.ok = FALSE, !.error = message]]
    /\ res' = [res EXCEPT ![p] = [status |-> 500, body |-> out'[p]]]
    /\ pc' = [pc EXCEPT ![p] = "done"]

\* an Error thrown at a line of the handler: the outer catch takes it when
\* the line is in the try block, else it rejects the handler's promise
Raise(p, line, message) ==
    /\ thrown' = [thrown EXCEPT ![p] = message]
    /\ IF line \in TryBlock
       THEN Catch(p, message)
       ELSE /\ pc' = [pc EXCEPT ![p] = "threw"]
            /\ UNCHANGED <<out, res>>

\* (mutant) any authorization header passes
AuthorizedByAnyHeader(secret, authorization) ==
    secret = <<>> \/ authorization # <<>>
\* line 39, negated: no cron secret, or the header is `Bearer <secret>`;
\* a secret is <<>> when CRON_SECRET is not set (or empty), else the header
\* that matches it
Authorized(secret, authorization) ==
    secret = <<>> \/ authorization = secret

\* lines 36-45: a fresh invocation, the cron secret check, the fresh `out`
Invoke(p) ==
    /\ pc[p] \in {"idle", "done", "killed", "threw"}
    /\ \E secret \in {<<>>, <<"Bearer", "s3cret">>},
          authorization \in {<<>>, <<"Bearer", "s3cret">>, <<"Bearer", "guess">>} :
          /\ req' = [req EXCEPT ![p] = [secret |-> secret,
                                        authorization |-> authorization]]
          /\ IF ~Authorized(secret, authorization)
             THEN /\ res' = [res EXCEPT ![p] =
                               [status |-> 401, body |-> [error |-> "Unauthorized"]]]
                  /\ pc' = [pc EXCEPT ![p] = "done"]
                  /\ out' = [out EXCEPT ![p] = NoOut]
             ELSE /\ res' = [res EXCEPT ![p] = NoResponse]
                  /\ pc' = [pc EXCEPT ![p] = "getPool"]
                  /\ out' = [out EXCEPT ![p] =
                               [ok |-> TRUE, pairsSynced |-> 0,
                                candlesInserted |-> 0, error |-> Null]]
    /\ symbols' = [symbols EXCEPT ![p] = <<>>]
    /\ cursor' = [cursor EXCEPT ![p] = 0]
    /\ batch' = [batch EXCEPT ![p] = <<>>]
    /\ nextCursor' = [nextCursor EXCEPT ![p] = 0]
    /\ endMs' = [endMs EXCEPT ![p] = 0]
    /\ allRows' = [allRows EXCEPT ![p] = <<>>]
    /\ pos' = [pos EXCEPT ![p] = NoPos]
    /\ calls' = [calls EXCEPT ![p] = <<>>]
    /\ thrown' = [thrown EXCEPT ![p] = Null]
    /\ before' = [before EXCEPT ![p] = {}]
    /\ metaCalls' = [metaCalls EXCEPT ![p] = <<>>]
    /\ registryRead' = [registryRead EXCEPT ![p] = <<>>]
    /\ UNCHANGED <<universe, upBudget, crashBudget, pairs, sync_cursor,
                   candles, passLog, lastKill, probe, lastCall, clock, gate,
                   starts>>

\* line 49: getPool()
GetPool(p) ==
    /\ pc[p] = "getPool"
    /\ pc' = [pc EXCEPT ![p] = "initDb"]
    /\ req' = [req EXCEPT ![p] = NoRequest]
    /\ UNCHANGED <<universe, upBudget, crashBudget, pairs, sync_cursor,
                   candles, symbols, cursor, batch, nextCursor, endMs,
                   allRows, pos, out, res, calls, passLog, lastKill, thrown,
                   before, probe, metaCalls, registryRead, lastCall, clock,
                   gate, starts>>

\* line 49: getPool() throws (db.js line 16: no DATABASE_URL)
ConfigError(p) ==
    /\ pc[p] = "getPool"
    /\ Raise(p, 49, "DATABASE_URL or POSTGRES_URL is required")
    /\ UNCHANGED <<universe, upBudget, crashBudget, pairs, sync_cursor,
                   candles, symbols, cursor, batch, nextCursor, endMs,
                   allRows, pos, calls, passLog, lastKill, before, probe,
                   metaCalls, registryRead, req, lastCall, clock, gate,
                   starts>>

\* line 50: initDb(pool), CREATE TABLE IF NOT EXISTS
InitDb(p) ==
    /\ pc[p] = "initDb"
    /\ pc' = [pc EXCEPT ![p] = "getAllPairs"]
    /\ UNCHANGED <<universe, upBudget, crashBudget, pairs, sync_cursor,
                   candles, symbols, cursor, batch, nextCursor, endMs,
                   allRows, pos, out, res, calls, passLog, lastKill, thrown,
                   before, probe, metaCalls, registryRead, req, lastCall,
                   clock, gate, starts>>

\* (mutant) the universe is fetched again in every invocation
AlwaysRediscover(syms) == TRUE
\* line 53: symbols.length === 0
NoSymbols(syms) == Len(syms) = 0

\* lines 52-53: the registry, ordered by symbol
GetAllPairs(p) ==
    /\ pc[p] = "getAllPairs"
    /\ symbols' = [symbols EXCEPT ![p] = OrderBySymbol(pairs)]
    /\ registryRead' = [registryRead EXCEPT ![p] = <<symbols'[p]>>]
    /\ pc' = [pc EXCEPT ![p] =
                IF NoSymbols(symbols'[p]) THEN "getMeta" ELSE "getSyncState"]
    /\ UNCHANGED <<universe, upBudget, crashBudget, pairs, sync_cursor,
                   candles, cursor, batch, nextCursor, endMs, allRows, pos,
                   out, res, calls, passLog, lastKill, thrown, before,
                   probe, metaCalls, req, lastCall, clock, gate, starts>>

\* line 54: getMeta() answers; lines 55-56 at once when it lists no symbol
GetMeta(p) ==
    /\ pc[p] = "getMeta"
    /\ symbols' = [symbols EXCEPT ![p] = universe]
    /\ metaCalls' = [metaCalls EXCEPT ![p] = Append(@, 200)]
    /\ IF universe = <<>>
       THEN /\ out' = [out EXCEPT ![p] = @ @@ [pairsFetched |-> 0]]
            /\ pc' = [pc EXCEPT ![p] = "getSyncState"]
            /\ pos' = pos
       ELSE /\ out' = out
            /\ pc' = [pc EXCEPT ![p] = "upsertPairs"]
            /\ pos' = [pos EXCEPT ![p].pj = 1]
    /\ UNCHANGED <<universe, upBudget, crashBudget, pairs, sync_cursor,
                   candles, cursor, batch, nextCursor, endMs, allRows, res,
                   calls, passLog, lastKill, thrown, before, probe,
                   registryRead, req, lastCall, clock, gate, starts>>

\* line 54: getMeta() throws (hyperliquid.js line 35: any non-2xx status)
GetMetaFails(p) ==
    /\ pc[p] = "getMeta"
    /\ \E status \in {429, 500} :
          /\ metaCalls' = [metaCalls EXCEPT ![p] = Append(@, status)]
          /\ Raise(p, 54, MetaError(status))
    /\ UNCHANGED <<universe, upBudget, crashBudget, pairs, sync_cursor,
                   candles, symbols, cursor, batch, nextCursor, endMs,
                   allRows, pos, calls, passLog, lastKill, before, probe,
                   registryRead, req, lastCall, clock, gate, starts>>

\* (mutant) every INSERT of upsertPairs names the first symbol
FirstSymbolUpserted(p) == symbols[p][1]
\* db.js lines 83-88: the symbol the INSERT of this turn of the loop names
SymbolUpserted(p) == symbols[p][pos[p].pj]

\* line 55: upsertPairs, one INSERT per symbol; line 56 after the last one
UpsertPairs(p) ==
    /\ pc[p] = "upsertPairs"
    /\ pairs' = pairs \cup {SymbolUpserted(p)}
    /\ IF pos[p].pj < Len(symbols[p])
       THEN /\ pos' = [pos EXCEPT ![p].pj = @ + 1]
            /\ UNCHANGED <<pc, out>>
       ELSE /\ pos' = [pos EXCEPT ![p].pj = 0]
            /\ out' = [out EXCEPT ![p] = @ @@ [pairsFetched |-> Len(symbols[p])]]
            /\ pc' = [pc EXCEPT ![p] = "getSyncState"]
    /\ UNCHANGED <<universe, upBudget, crashBudget, sync_cursor, candles,
                   symbols, cursor, batch, nextCursor, endMs, allRows, res,
                   calls, passLog, lastKill, thrown, before, probe,
                   metaCalls, registryRead, req, lastCall, clock, gate,
                   starts>>

\* lines 59-61: read the cursor, select the slice, compute the next cursor
GetSyncState(p) ==
    /\ pc[p] = "getSyncState"
    /\ cursor' = [cursor EXCEPT ![p] = ReadCursor(sync_cursor)]
    /\ batch' = [batch EXCEPT ![p] = SelectBatch(symbols[p], cursor'[p])]
    /\ nextCursor' = [nextCursor EXCEPT ![p] = NextCursor(symbols[p], cursor'[p])]
    /\ pc' = [pc EXCEPT ![p] = "setSyncState"]
    /\ UNCHANGED <<universe, upBudget, crashBudget, pairs, sync_cursor,
                   candles, symbols, endMs, allRows, pos, out, res, calls,
                   passLog, lastKill, thrown, before, probe, metaCalls,
                   registryRead, req, lastCall, clock, gate, starts>>

\* (mutant) the cursor write left out
SyncCursorKept(p) == sync_cursor
\* setSyncState(pool, 'sync_cursor', String(nextCursor)): the row after the
\* INSERT ... ON CONFLICT (key) DO UPDATE
SyncCursorWritten(p) == <<StringOf(nextCursor[p])>>


\* lines 62-65: write the next cursor, then endMs and the empty allRows;
\* line 112 at once when the batch is empty
SetSyncState(p) ==
    /\ pc[p] = "setSyncState"
    /\ sync_cursor' = SyncCursorWritten(p)
    /\ \E now \in DateNow : endMs' = [endMs EXCEPT ![p] = now]
    /\ allRows' = [allRows EXCEPT ![p] = <<>>]
    /\ IF batch[p] = <<>>
       THEN /\ pc' = [pc EXCEPT ![p] = "persist"]
            /\ pos' = pos
            /\ before' = [before EXCEPT ![p] = candles]
       ELSE /\ pc' = [pc EXCEPT ![p] = "fetch"]
            /\ pos' = [pos EXCEPT ![p].si = 1, ![p].ii = 1]
            /\ before' = before
    /\ LET slice == [cursor |-> cursor[p], batch |-> batch[p],
                     next |-> nextCursor[p], count |-> Len(symbols[p]),
                     boot |-> "pairsFetched" \in DOMAIN out[p]]
       IN  passLog' = IF cursor[p] = 0 THEN <<slice>> ELSE Append(passLog, slice)
    /\ lastKill' = NoSlice
    /\ UNCHANGED <<universe, upBudget, crashBudget, pairs, candles, symbols,
                   cursor, batch, nextCursor, out, res, calls, thrown,
                   probe, metaCalls, registryRead, req, lastCall, clock,
                   gate, starts>>


\* the loop of lines 67-68 moves on to the next (symbol, interval) pair, or
\* to line 112 after the last one
NextPair(p) ==
    IF pos[p].ii < Len(INTERVALS)
    THEN /\ pos' = [pos EXCEPT ![p].ii = @ + 1]
         /\ pc' = [pc EXCEPT ![p] = "fetch"]
         /\ before' = before
    ELSE IF pos[p].si < Len(batch[p])
    THEN /\ pos' = [pos EXCEPT ![p].si = @ + 1, ![p].ii = 1]
         /\ pc' = [pc EXCEPT ![p] = "fetch"]
         /\ before' = before
    ELSE /\ pos' = [pos EXCEPT ![p].si = 0, ![p].ii = 0, ![p].i = 0]
         /\ pc' = [pc EXCEPT ![p] = "persist"]
         /\ before' = [before EXCEPT ![p] = candles]

Symbol(p) == batch[p][pos[p].si]
Interval(p) == INTERVALS[pos[p].ii]
\* lines 70-71: the request of the first attempt
FirstRequest(p) ==
    LET startMs == endMs[p] - MS_PER_INTERVAL[Interval(p)]
    IN  Request(Symbol(p), Interval(p), startMs, endMs[p])
\* (mutant) the retry asks for a window that ends after the back-off
RetryRequestLater(p) ==
    LET startMs == endMs[p] + BACKOFF_MS - MS_PER_INTERVAL[Interval(p)]
    IN  Request(Symbol(p), Interval(p), startMs, endMs[p] + BACKOFF_MS)
\* lines 90-91: the request of the retry
RetryRequest(p) ==
    LET startMs == endMs[p] - MS_PER_INTERVAL[Interval(p)]
    IN  Request(Symbol(p), Interval(p), startMs, endMs[p])
\* one getCandleSnapshot call, as the history records it: the request, the
\* time the handler slept before it, its outcome
Call(request, slept, result) ==
    [request |-> request, slept |-> slept, result |-> result]

\* lines 70-85: getCandleSnapshot answers and its points are normalized
FetchOk(p) ==
    /\ pc[p] = "fetch"
    /\ LET request == FirstRequest(p)
           raw == Snapshot(request.coin, request.interval)
       IN  /\ allRows' = [allRows EXCEPT ![p] =
                            @ \o Normalize(Symbol(p), Interval(p), raw)]
           /\ calls' = [calls EXCEPT ![p] = Append(@, Call(request, 0, "ok"))]
    /\ NextPair(p)
    /\ UNCHANGED <<universe, upBudget, crashBudget, pairs, sync_cursor,
                   candles, symbols, cursor, batch, nextCursor, endMs, out,
                   res, passLog, lastKill, thrown, probe, metaCalls,
                   registryRead, req, lastCall, clock, gate, starts>>

\* (mutant) no inner try: the error of the first attempt reaches the outer
\* catch
FetchErrorAborts(p) ==
    /\ pc[p] = "fetch"
    /\ upBudget > 0
    /\ upBudget' = upBudget - 1
    /\ calls' = [calls EXCEPT ![p] =
                   Append(@, Call(FirstRequest(p), 0, CandleError(500)))]
    /\ Raise(p, 71, CandleError(500))
    /\ UNCHANGED <<universe, crashBudget, pairs, sync_cursor, candles,
                   symbols, cursor, batch, nextCursor, endMs, allRows, pos,
                   passLog, lastKill, before, probe, metaCalls,
                   registryRead, req, lastCall, clock, gate, starts>>

\* lines 86-87, 107: getCandleSnapshot throws, not RATE_LIMIT: the inner catch
\* skips the pair
FetchError(p) ==
    /\ pc[p] = "fetch"
    /\ upBudget > 0
    /\ upBudget' = upBudget - 1
    /\ CandleError(500) # "RATE_LIMIT"
    /\ calls' = [calls EXCEPT ![p] =
                   Append(@, Call(FirstRequest(p), 0, CandleError(500)))]
    /\ NextPair(p)
    /\ UNCHANGED <<universe, crashBudget, pairs, sync_cursor, candles,
                   symbols, cursor, batch, nextCursor, endMs, allRows, out,
                   res, passLog, lastKill, thrown, probe, metaCalls,
                   registryRead, req, lastCall, clock, gate, starts>>

\* lines 86-88: getCandleSnapshot throws RATE_LIMIT: the inner catch sleeps 15 s
FetchRateLimited(p) ==
    /\ pc[p] = "fetch"
    /\ upBudget > 0
    /\ upBudget' = upBudget - 1
    /\ CandleError(429) = "RATE_LIMIT"
    /\ calls' = [calls EXCEPT ![p] =
                   Append(@, Call(FirstRequest(p), 0, CandleError(429)))]
    /\ pc' = [pc EXCEPT ![p] = "backoff"]
    /\ UNCHANGED <<universe, crashBudget, pairs, sync_cursor, candles,
                   symbols, cursor, batch, nextCursor, endMs, allRows, pos,
                   out, res, passLog, lastKill, thrown, before, probe,
                   metaCalls, registryRead, req, lastCall, clock, gate,
                   starts>>

\* lines 90-105: the retry answers and its points are normalized
RetryOk(p) ==
    /\ pc[p] = "backoff"
    /\ LET request == RetryRequest(p)
           raw == Snapshot(request.coin, request.interval)
       IN  /\ allRows' = [allRows EXCEPT ![p] =
                            @ \o Normalize(Symbol(p), Interval(p), raw)]
           /\ calls' = [calls EXCEPT ![p] =
                          Append(@, Call(request, BACKOFF_MS, "ok"))]
    /\ NextPair(p)
    /\ UNCHANGED <<universe, upBudget, crashBudget, pairs, sync_cursor,
                   candles, symbols, cursor, batch, nextCursor, endMs, out,
                   res, passLog, lastKill, thrown, probe, metaCalls,
                   registryRead, req, lastCall, clock, gate, starts>>

\* line 91: the retry throws; it is in the inner catch block, which no try
\* covers but the outer one
RetryFails(p) ==
    /\ pc[p] = "backoff"
    /\ \E status \in {429, 500} :
          /\ calls' = [calls EXCEPT ![p] =
                         Append(@, Call(RetryRequest(p), BACKOFF_MS,
                                        CandleError(status)))]
          /\ Raise(p, 91, CandleError(status))
    /\ UNCHANGED <<universe, upBudget, crashBudget, pairs, sync_cursor,
                   candles, symbols, cursor, batch, nextCursor, endMs,
                   allRows, pos, passLog, lastKill, before, probe,
                   metaCalls, registryRead, req, lastCall, clock, gate,
                   starts>>

\* (mutant) one statement with all the rows that are left
ChunkToTheEnd(rows, i) == Slice(rows, i, Len(rows))
\* db.js line 103: rows.slice(i, i + BATCH_SIZE)
Chunk(rows, i) == Slice(rows, i, i + BATCH_SIZE)

\* db.js lines 102-120: one chunk of upsertCandles, one statement
PersistChunk(p) ==
    /\ pc[p] = "persist"
    /\ pos[p].i < Len(allRows[p])
    /\ LET chunk == Chunk(allRows[p], pos[p].i)
       IN  IF StatementOk(chunk)
           THEN /\ candles' = UpsertRows(candles, chunk)
                /\ pos' = [pos EXCEPT ![p].i = @ + BATCH_SIZE]
                /\ UNCHANGED <<pc, out, res, thrown>>
           ELSE /\ Raise(p, 113, "store error")
                /\ UNCHANGED <<candles, pos>>
    /\ UNCHANGED <<universe, upBudget, crashBudget, pairs, sync_cursor,
                   symbols, cursor, batch, nextCursor, endMs, allRows,
                   calls, passLog, lastKill, before, probe, metaCalls,
                   registryRead, req, lastCall, clock, gate, starts>>

\* lines 112-118: after upsertCandles (or without it) the summary is sent
Report(p) ==
    /\ pc[p] = "persist"
    /\ pos[p].i >= Len(allRows[p])
    /\ out' = [out EXCEPT ![p] =
          [@ EXCEPT !.candlesInserted =
                        IF Len(allRows[p]) # 0 THEN Len(allRows[p]) ELSE @,
                    !.pairsSynced = Len(batch[p])]
            @@ [nextCursor |-> nextCursor[p]]]
    /\ res' = [res EXCEPT ![p] = [status |-> 200, body |-> out'[p]]]
    /\ pc' = [pc EXCEPT ![p] = "done"]
    /\ UNCHANGED <<universe, upBudget, crashBudget, pairs, sync_cursor,
                   candles, symbols, cursor, batch, nextCursor, endMs,
                   allRows, pos, calls, passLog, lastKill, thrown, before,
                   probe, metaCalls, registryRead, req, lastCall, clock,
                   gate, starts>>


\* the line of the handler a store query is awaited at
StoreLine(p) ==
    CASE pc[p] = "initDb"       -> 50
      [] pc[p] = "getAllPairs"  -> 52
      [] pc[p] = "upsertPairs"  -> 55
      [] pc[p] = "getSyncState" -> 59
      [] pc[p] = "setSyncState" -> 62
      [] pc[p] = "persist"      -> 113
AtStore(p) ==
    \/ pc[p] \in {"initDb", "getAllPairs", "upsertPairs", "getSyncState",
                  "setSyncState"}
    \/ pc[p] = "persist" /\ pos[p].i < Len(allRows[p])

\* a query of lines 50-62 or 113 fails: the statement changes nothing and
\* throws
StoreError(p) ==
    /\ AtStore(p)
    /\ crashBudget > 0
    /\ crashBudget' = crashBudget - 1
    /\ Raise(p, StoreLine(p), "store error")
    /\ UNCHANGED <<universe, upBudget, pairs, sync_cursor, candles, symbols,
                   cursor, batch, nextCursor, endMs, allRows, pos, calls,
                   passLog, lastKill, before, probe, metaCalls,
                   registryRead, req, lastCall, clock, gate, starts>>

\* the platform kills the process at an await: nothing is sent, the memory
\* of the invocation is gone, the store keeps what was written
Kill(p) ==
    /\ pc[p] \notin {"idle", "done", "killed", "threw"}
    /\ crashBudget > 0
    /\ crashBudget' = crashBudget - 1
    /\ lastKill' = IF pc[p] \in {"setSyncState", "fetch", "backoff", "persist"}
                   THEN [stage |-> pc[p], cursor |-> cursor[p], batch |-> batch[p],
                         next |-> nextCursor[p], count |-> Len(symbols[p])]
                   ELSE lastKill
    /\ pc' = [pc EXCEPT ![p] = "killed"]
    /\ symbols' = [symbols EXCEPT ![p] = <<>>]
    /\ cursor' = [cursor EXCEPT ![p] = 0]
    /\ batch' = [batch EXCEPT ![p] = <<>>]
    /\ nextCursor' = [nextCursor EXCEPT ![p] = 0]
    /\ endMs' = [endMs EXCEPT ![p] = 0]
    /\ allRows' = [allRows EXCEPT ![p] = <<>>]
    /\ pos' = [pos EXCEPT ![p] = NoPos]
    /\ out' = [out EXCEPT ![p] = NoOut]
    /\ res' = [res EXCEPT ![p] = NoResponse]
    /\ calls' = [calls EXCEPT ![p] = <<>>]
    /\ thrown' = [thrown EXCEPT ![p] = Null]
    /\ before' = [before EXCEPT ![p] = {}]
    /\ metaCalls' = [metaCalls EXCEPT ![p] = <<>>]
    /\ registryRead' = [registryRead EXCEPT ![p] = <<>>]
    /\ req' = [req EXCEPT ![p] = NoRequest]
    /\ UNCHANGED <<universe, upBudget, pairs, sync_cursor, candles, passLog,
                   probe, lastCall, clock, gate, starts>>

-----------------------------------------------------------------------------
(* The engine: invocations one after another *)

Step(p) ==
    \/ Invoke(p) \/ GetPool(p) \/ ConfigError(p) \/ InitDb(p) \/ GetAllPairs(p)
    \/ GetMeta(p) \/ GetMetaFails(p) \/ UpsertPairs(p) \/ GetSyncState(p)
    \/ SetSyncState(p) \/ FetchOk(p) \/ FetchError(p) \/ FetchRateLimited(p)
    \/ RetryOk(p) \/ RetryFails(p) \/ PersistChunk(p) \/ Report(p)
    \/ StoreError(p) \/ Kill(p)

Next == Step(1)

Spec == Init /\ [][Next]_vars


-----------------------------------------------------------------------------
(* What the histories say about the invocation of worker p *)

Responded(p) == pc[p] = "done" /\ res[p].status # 0
\* the run got past the cron secret check and ended with status 200 or 500
RunEnded(p) == pc[p] = "done" /\ res[p].status \in {200, 500}
FirstAttempts(p) == {i \in 1..Len(calls[p]) : calls[p][i].slept = 0}
Retries(p) == {i \in 1..Len(calls[p]) : calls[p][i].slept # 0}
\* a first attempt was rejected as rate-limited and its retry failed too
RetryFailed(p) ==
    \E i \in Retries(p) : i > 1 /\ calls[p][i - 1].result = "RATE_LIMIT"
                          /\ calls[p][i].result # "ok"
\* the (symbol, interval) pairs of the batch, in the order of the loops
PairsOf(b) ==
    [k \in 1..(Len(b) * Len(INTERVALS)) |->
        <<b[((k - 1) \div Len(INTERVALS)) + 1],
          INTERVALS[((k - 1) % Len(INTERVALS)) + 1]>>]
PairOfCall(c) == <<c.request.coin, c.request.interval>>
\* the rows a pair contributes when the upstream answers its request
RowsOfPair(pair) ==
    {r \in [symbol : {pair[1]}, interval : {pair[2]},
            ts_ms : {Snapshot(pair[1], pair[2])[j].T : j \in 1..MaxPoints},
            open : {100 + pair[1]}, high : {101 + pair[1]},
            low : {99 + pair[1]}, close : {100 + pair[1]},
            volume : 1..MaxPoints] : r.ts_ms = JsNum(10 * r.volume + 9)}
AnsweredPairs(p) ==
    {PairOfCall(calls[p][i]) : i \in {j \in 1..Len(calls[p]) :
                                          calls[p][j].result = "ok"}}

-----------------------------------------------------------------------------
(* C1: rate-limited, then the retry fails *)

\* C1: when a pair's first attempt is rejected as rate-limited and the single
\* retry fails too, only that pair is abandoned: the run goes on with the
\* remaining pairs, persists the points of the answered pairs and ends with
\* status 200 and ok:true.
C1_FailedRetrySkipsOnlyThePair ==
    \A p \in Workers :
        RetryFailed(p) =>
            /\ pc[p] \in {"fetch", "backoff", "persist", "done"}
            /\ pc[p] = "done" =>
                  /\ res[p].status = 200
                  /\ res[p].body.ok = TRUE
                  /\ \A pair \in AnsweredPairs(p) : RowsOfPair(pair) \subseteq candles


-----------------------------------------------------------------------------
(* C2: slice selection, for every persisted cursor and registry size *)

\* the store holds a registry of n symbols and a cursor c below n; one
\* invocation runs up to the write of the next cursor
InitSlice ==
    /\ \E n \in 1..MaxSymbols : \E c \in 0..(n - 1) :
          /\ universe = Ascending(n)
          /\ pairs = 1..n
          /\ sync_cursor = <<StringOf(c)>>
          /\ probe = [n |-> n, c |-> c]
    /\ upBudget = 0
    /\ crashBudget = 0
    /\ candles = {}
    /\ IdleWorkers

NextSlice ==
    \/ Invoke(1) \/ GetPool(1) \/ InitDb(1) \/ GetAllPairs(1)
    \/ GetSyncState(1) \/ SetSyncState(1)

SpecSlice == InitSlice /\ [][NextSlice]_vars

\* the decimal string of a number below 100, as sync_state holds it
Decimal(n) == JsStr(IF n < 10 THEN <<n>> ELSE <<n \div 10, n % 10>>)

\* C2: from a persisted cursor C (0 <= C < N) and N registered symbols, the
\* invocation selects symbols[C : min(C+K, N)] and persists C + len(batch) if
\* that is below N and 0 otherwise; 0 is persisted only when the batch ends
\* at the end of the list.
C2_SliceSelection ==
    \A p \in Workers :
        pc[p] \in {"fetch", "persist"} =>
            LET len == IF probe.n - probe.c < PAIRS_PER_RUN
                       THEN probe.n - probe.c ELSE PAIRS_PER_RUN
                next == IF probe.c + len < probe.n THEN probe.c + len ELSE 0
            IN  /\ Len(batch[p]) = len
                /\ \A i \in 1..len : batch[p][i] = probe.c + i
                /\ sync_cursor = <<Decimal(next)>>
                /\ sync_cursor = <<Decimal(0)>> => probe.c + Len(batch[p]) = probe.n

\* a cursor that is no multiple of K, with a batch that ends the list
C2_Witness ==
    /\ pc[1] = "fetch"
    /\ probe.n = MaxSymbols /\ probe.c = 30
    /\ Len(batch[1]) = MaxSymbols - 30
    /\ sync_cursor = <<Decimal(0)>>

-----------------------------------------------------------------------------
(* C3: the persisted cursor stays below the registry's size *)

\* C3: in every reachable state, after invocations that succeeded, failed or
\* were killed at any await, starting from an absent cursor, a persisted
\* cursor is the decimal string of a number c with 0 <= c < symbolCount, the
\* number of registry entries, whenever the registry is not empty.
C3_CursorInRange ==
    (pairs # {} /\ sync_cursor # <<>>) =>
        \E c \in 0..(Cardinality(pairs) - 1) : sync_cursor = <<Decimal(c)>>

\* an invocation was killed in its fetch loop after it advanced the cursor
\* to 24 of 25
C3_Witness ==
    /\ lastKill.stage = "fetch"
    /\ Cardinality(pairs) = PAIRS_PER_RUN + 1
    /\ sync_cursor = <<Decimal(PAIRS_PER_RUN)>>

-----------------------------------------------------------------------------
(* C4: a pass over a fixed registry *)

\* passLog holds, from the invocation that found the cursor at 0 on, the
\* slice of every invocation that wrote its cursor; a pass over n symbols
\* takes ceil(n / PAIRS_PER_RUN) of them
PassLength(n) == (n + PAIRS_PER_RUN - 1) \div PAIRS_PER_RUN

\* C4: with a registry of N > 0 symbols that was read from the store (no
\* bootstrap) and the cursor at 0, the consecutive invocations select
\* pairwise disjoint batches, the i-th one at cursor (i-1)*K; the cursor is
\* 0 again exactly after ceil(N/K) of them, and then every symbol of the
\* list is in exactly one batch.  For N = 50, K = 24 the batches are
\* symbols[0:24], symbols[24:48], symbols[48:50] and the cursor goes 24, 48, 0.
C4_FullPassCoverage ==
    (passLog # <<>> /\ ~passLog[1].boot) =>
        LET n == Cardinality(pairs)
            syms == OrderBySymbol(pairs)
            m == Len(passLog)
        IN  /\ n > 0
            /\ m <= PassLength(n)
            /\ \A i \in 1..m :
                  /\ passLog[i].count = n
                  /\ passLog[i].cursor = (i - 1) * PAIRS_PER_RUN
                  /\ passLog[i].batch # <<>>
                  /\ \A k, l \in 1..Len(passLog[i].batch) :
                        passLog[i].batch[k] = passLog[i].batch[l] => k = l
                  /\ Range(passLog[i].batch) \subseteq pairs
            /\ \A i, j \in 1..m :
                  i # j => Range(passLog[i].batch) \cap Range(passLog[j].batch) = {}
            /\ sync_cursor = <<Decimal(passLog[m].next)>>
            /\ passLog[m].next = 0 <=> m = PassLength(n)
            /\ passLog[m].next = 0 =>
                  UNION {Range(passLog[i].batch) : i \in 1..m} = pairs
            /\ n = 50 =>
                  /\ m >= 1 => /\ passLog[1].batch = SubSeq(syms, 1, 24)
                               /\ passLog[1].next = 24
                  /\ m >= 2 => /\ passLog[2].batch = SubSeq(syms, 25, 48)
                               /\ passLog[2].next = 48
                  /\ m >= 3 => /\ passLog[3].batch = SubSeq(syms, 49, 50)
                               /\ passLog[3].next = 0

\* the third invocation of a pass over 50 registered symbols has wrapped the
\* cursor
C4_Witness ==
    /\ Len(passLog) = 3
    /\ ~passLog[1].boot
    /\ Cardinality(pairs) = 50
    /\ passLog[3].next = 0
    /\ sync_cursor = <<Decimal(0)>>

-----------------------------------------------------------------------------
(* C5: the cursor is advanced before the fetch loop *)

KilledInFetchLoop == lastKill.stage \in {"fetch", "backoff"}

\* C5 as stated: the next cursor is in the store before the first request of
\* the fetch loop, and the invocation that follows one killed in the fetch
\* loop starts at the advanced cursor and selects another slice than the
\* killed one.
C5_NeverTheSameSliceAgain ==
    \A p \in Workers :
        /\ (pc[p] = "setSyncState") => calls[p] = <<>>
        /\ (pc[p] \in {"fetch", "backoff", "persist"}) =>
              sync_cursor = <<Decimal(nextCursor[p])>>
        /\ (pc[p] = "setSyncState" /\ KilledInFetchLoop) =>
              /\ cursor[p] = lastKill.next
              /\ batch[p] # lastKill.batch

\* C5: in every invocation the next cursor is written to the store before
\* the first request of the fetch loop, so the invocation that follows one
\* killed in the fetch loop starts its slice at the advanced cursor; this is
\* another slice than the killed one when the list has more than K symbols,
\* and with at most K symbols the advanced cursor is 0 again and the same
\* slice, the whole list, is selected again.
C5_CursorAdvancedBeforeFetch ==
    \A p \in Workers :
        /\ (pc[p] = "setSyncState") => calls[p] = <<>>
        /\ (pc[p] \in {"fetch", "backoff", "persist"}) =>
              sync_cursor = <<Decimal(nextCursor[p])>>
        /\ (pc[p] = "setSyncState" /\ KilledInFetchLoop) =>
              /\ cursor[p] = lastKill.next
              /\ lastKill.count > PAIRS_PER_RUN =>
                    /\ cursor[p] # lastKill.cursor
                    /\ batch[p] # lastKill.batch
              /\ lastKill.count <= PAIRS_PER_RUN =>
                    /\ cursor[p] = 0
                    /\ lastKill.cursor = 0
                    /\ Range(batch[p]) = Range(lastKill.batch)

\* an invocation was killed while fetching symbols[0:24] of 25, and the next
\* one has selected its slice at cursor 24
C5_Witness ==
    /\ pc[1] = "setSyncState"
    /\ lastKill.stage = "fetch"
    /\ lastKill.count = PAIRS_PER_RUN + 1
    /\ lastKill.cursor = 0
    /\ cursor[1] = PAIRS_PER_RUN
    /\ Len(batch[1]) = 1

-----------------------------------------------------------------------------
(* C6: an upstream error of one pair *)

\* the first attempts that getCandleSnapshot rejected with an error that is
\* not RATE_LIMIT
UpstreamErrors(p) ==
    {i \in FirstAttempts(p) : calls[p][i].result = CandleError(500)}
FailedPairs(p) == {PairOfCall(calls[p][i]) : i \in UpstreamErrors(p)}
FirstAttemptPairs(p) ==
    LET RECURSIVE Pick(_)
        Pick(i) == IF i > Len(calls[p]) THEN <<>>
                   ELSE IF calls[p][i].slept = 0
                        THEN <<PairOfCall(calls[p][i])>> \o Pick(i + 1)
                        ELSE Pick(i + 1)
    IN  Pick(1)

\* C6: an error of getCandleSnapshot that is not RATE_LIMIT, on the first
\* attempt for one (symbol, interval) pair, never ends the run: the loop
\* goes on, the handler's error is never that one, and unless something
\* else fails the run requests every pair of the batch, persists the points
\* of every answered pair, none for the failed pair, and sends status 200
\* with ok:true.
C6_UpstreamErrorSwallowed ==
    \A p \in Workers :
        UpstreamErrors(p) # {} =>
            /\ pc[p] \in {"fetch", "backoff", "persist", "done"}
            /\ thrown[p] # Null =>
                  \/ thrown[p] = "store error"
                  \/ /\ calls[p][Len(calls[p])].slept # 0
                     /\ calls[p][Len(calls[p])].result = thrown[p]
            /\ (pc[p] = "done" /\ thrown[p] = Null) =>
                  /\ res[p].status = 200
                  /\ res[p].body.ok = TRUE
                  /\ res[p].body.error = Null
                  /\ FirstAttemptPairs(p) = PairsOf(batch[p])
                  /\ AnsweredPairs(p) = Range(PairsOf(batch[p])) \ FailedPairs(p)
                  /\ \A pair \in AnsweredPairs(p) : RowsOfPair(pair) \subseteq candles
                  /\ \A pair \in FailedPairs(p) :
                        \A k \in 1..Len(allRows[p]) :
                            <<allRows[p][k].symbol, allRows[p][k].interval>> # pair

\* a run over two symbols ended with status 200 after one of its 18 requests
\* was rejected with an upstream error
C6_Witness ==
    /\ pc[1] = "done"
    /\ res[1].status = 200
    /\ Len(batch[1]) = 2
    /\ Cardinality(UpstreamErrors(1)) = 1
    /\ Cardinality(AnsweredPairs(1)) = 2 * Len(INTERVALS) - 1
    /\ \A pair \in AnsweredPairs(1) : RowsOfPair(pair) \subseteq candles

-----------------------------------------------------------------------------
(* C7: one retry after RATE_LIMIT *)

RetriedOk(p) == {i \in Retries(p) : calls[p][i].result = "ok"}
\* the place of a request's pair in the order of the loops of lines 67-68
LoopIndex(p, c) ==
    LET si == CHOOSE k \in 1..Len(batch[p]) : batch[p][k] = c.request.coin
        ii == CHOOSE k \in 1..Len(INTERVALS) : INTERVALS[k] = c.request.interval
    IN  (si - 1) * Len(INTERVALS) + ii

\* C7: a first attempt rejected with RATE_LIMIT is followed, after the 15 s
\* back-off, by one request with the same symbol, interval, startTime and
\* endTime, and a request after a back-off is only ever made right after
\* such a rejection; no pair is requested more than twice in an invocation,
\* as every first attempt is for a later pair of the loops than the request
\* before it and every retry for the pair of the request before it;
\* when the retry is answered its rows are in allRows once, and unless the
\* store or the retry of a later pair fails the run ends with status 200,
\* ok:true and those rows in the candles table.
C7_BoundedRetry ==
    \A p \in Workers :
        /\ \A i \in 1..Len(calls[p]) :
              /\ (calls[p][i].slept = 0 /\ calls[p][i].result = "RATE_LIMIT") =>
                    IF i = Len(calls[p])
                    THEN pc[p] = "backoff"
                    ELSE /\ calls[p][i + 1].request = calls[p][i].request
                         /\ calls[p][i + 1].slept = BACKOFF_MS
              /\ calls[p][i].slept # 0 =>
                    /\ i > 1
                    /\ calls[p][i].slept = BACKOFF_MS
                    /\ calls[p][i - 1].slept = 0
                    /\ calls[p][i - 1].result = "RATE_LIMIT"
        /\ pc[p] = "backoff" =>
              /\ calls[p] # <<>>
              /\ calls[p][Len(calls[p])].slept = 0
              /\ calls[p][Len(calls[p])].result = "RATE_LIMIT"
        /\ \A i \in 2..Len(calls[p]) :
              IF calls[p][i].slept = 0
              THEN LoopIndex(p, calls[p][i]) > LoopIndex(p, calls[p][i - 1])
              ELSE LoopIndex(p, calls[p][i]) = LoopIndex(p, calls[p][i - 1])
        /\ \A i \in RetriedOk(p) :
              LET pair == PairOfCall(calls[p][i])
              IN  /\ pc[p] \in {"fetch", "backoff", "persist", "done"}
                  /\ Cardinality({k \in 1..Len(allRows[p]) :
                                     allRows[p][k] \in RowsOfPair(pair)}) = MaxPoints
                  /\ RowsOfPair(pair) \subseteq Range(allRows[p])
                  /\ thrown[p] \notin {Null, "store error"} =>
                        /\ calls[p][Len(calls[p])].slept # 0
                        /\ calls[p][Len(calls[p])].result = thrown[p]
                  /\ (pc[p] = "done" /\ thrown[p] = Null) =>
                        /\ res[p].status = 200
                        /\ res[p].body.ok = TRUE
                        /\ RowsOfPair(pair) \subseteq candles

\* a run ended with status 200 after a first attempt was rejected with
\* RATE_LIMIT and the retry was answered
C7_Witness ==
    /\ pc[1] = "done"
    /\ res[1].status = 200
    /\ RetriedOk(1) # {}
    /\ \A i \in RetriedOk(1) :
          /\ calls[1][i - 1].result = "RATE_LIMIT"
          /\ RowsOfPair(PairOfCall(calls[1][i])) \subseteq candles

-----------------------------------------------------------------------------
(* C8: upsertCandles fails at a chunk *)

\* the handler answered after a query of upsertCandles failed
PersistFailed(p) ==
    /\ pc[p] = "done"
    /\ thrown[p] = "store error"
    /\ allRows[p] # <<>>

\* C8: when upsertCandles fails at a chunk the handler sends status 500 with
\* ok:false and the error's message, the cursor row holds the next cursor
\* this run wrote, and the candles table is the table as it was before
\* upsertCandles with exactly the rows of the chunks before the failing one
\* upserted: a prefix of allRows whose length is a multiple of 100.
C8_PartialPersist ==
    \A p \in Workers :
        PersistFailed(p) =>
            /\ res[p].status = 500
            /\ res[p].body.ok = FALSE
            /\ res[p].body.error = "store error"
            /\ sync_cursor = <<Decimal(nextCursor[p])>>
            /\ pos[p].i % BATCH_SIZE = 0
            /\ pos[p].i < Len(allRows[p])
            /\ candles = UpsertRows(before[p], SubSeq(allRows[p], 1, pos[p].i))
            /\ \A k \in (pos[p].i + 1)..Len(allRows[p]) :
                  allRows[p][k] \in candles => allRows[p][k] \in before[p]

\* upsertCandles failed at its second chunk: the first 100 of 216 rows are
\* committed, the cursor is 24
C8_Witness ==
    /\ PersistFailed(1)
    /\ pos[1].i = BATCH_SIZE
    /\ Len(allRows[1]) > 2 * BATCH_SIZE
    /\ Cardinality(candles) = BATCH_SIZE
    /\ sync_cursor = <<Decimal(PAIRS_PER_RUN)>>

-----------------------------------------------------------------------------
(* C9: upsertCandles on its own *)

MaxBatchRows == 2

\* the rows of the calls: one symbol, two timestamps, two prices
SomeRows ==
    [symbol : {1}, interval : {"1m"}, ts_ms : {JsNum(9), JsNum(19)},
     open : {100, 101}, high : {101}, low : {99}, close : {100}, volume : {1}]
\* BATCH_SIZE + 1 rows, the last one with the key of the first one and
\* another price: two chunks
TwoChunks ==
    [j \in 1..(BATCH_SIZE + 1) |->
        [symbol |-> 3, interval |-> "1m",
         ts_ms |-> JsNum(IF j <= BATCH_SIZE THEN j ELSE 1),
         open |-> IF j <= BATCH_SIZE THEN 100 ELSE 101,
         high |-> 101, low |-> 99, close |-> 100, volume |-> 1]]
UpsertInputs ==
    UNION {[1..n -> SomeRows] : n \in 0..MaxBatchRows} \cup {TwoChunks}

\* what last-write-wins makes of a table and a sequence of point upserts:
\* of the rows with one key, the last one upserted
LastWrites(table, rows) ==
    {r \in table : \A i \in 1..Len(rows) : Key(rows[i]) # Key(r)}
        \cup {rows[i] : i \in {j \in 1..Len(rows) :
                    \A k \in (j + 1)..Len(rows) : Key(rows[k]) # Key(rows[j])}}

InitUpsert ==
    /\ universe = <<>>
    /\ upBudget = 0
    /\ crashBudget = 0
    /\ pairs = {}
    /\ sync_cursor = <<>>
    /\ candles = {}
    /\ IdleWorkers
    /\ probe = {}

\* sync.js line 113, db.js lines 98-101: upsertCandles(pool, rows) is called;
\* probe is what last-write-wins makes of all the rows upserted so far
CallUpsertCandles(p) ==
    /\ pc[p] \in {"idle", "done"}
    /\ \E rows \in UpsertInputs :
          /\ allRows' = [allRows EXCEPT ![p] = rows]
          /\ probe' = LastWrites(probe, rows)
    /\ pos' = [pos EXCEPT ![p] = NoPos]
    /\ pc' = [pc EXCEPT ![p] = "persist"]
    /\ out' = [out EXCEPT ![p] = [ok |-> TRUE, pairsSynced |-> 0,
                                  candlesInserted |-> 0, error |-> Null]]
    /\ res' = [res EXCEPT ![p] = NoResponse]
    /\ thrown' = [thrown EXCEPT ![p] = Null]
    /\ before' = [before EXCEPT ![p] = candles]
    /\ UNCHANGED <<universe, upBudget, crashBudget, pairs, sync_cursor,
                   candles, symbols, cursor, batch, nextCursor, endMs,
                   calls, passLog, lastKill, metaCalls, registryRead, req,
                   lastCall, clock, gate, starts>>

NextUpsert == CallUpsertCandles(1) \/ PersistChunk(1) \/ Report(1)

SpecUpsert == InitUpsert /\ [][NextUpsert]_vars

\* C9: after any sequence of point upserts the candles table holds at most
\* one row per key (symbol, interval, ts_ms), the row of a key carries the
\* values of the latest upsert with that key (so the same key upserted twice
\* with different values leaves one row with the second values), and
\* upserting rows that are in the table already leaves the table unchanged.
C9_LastWriteWins ==
    \A p \in Workers :
        pc[p] = "done" =>
            /\ \A r1, r2 \in candles : Key(r1) = Key(r2) => r1 = r2
            /\ candles = probe
            /\ Range(allRows[p]) \subseteq before[p] => candles = before[p]

-----------------------------------------------------------------------------
(* C10: the handler always answers *)

\* C10 as stated: every invocation ends with a response, never with an error
\* propagating to the caller, and every response of an invocation that did
\* not complete successfully (any status but 200) has ok:false and an error
\* message string.
C10_OkFalseOnEveryFailure ==
    \A p \in Workers :
        /\ pc[p] # "threw"
        /\ pc[p] = "done" =>
              /\ res[p].status # 0
              /\ res[p].status # 200 =>
                    /\ "ok" \in DOMAIN res[p].body
                    /\ res[p].body.ok = FALSE
                    /\ res[p].body.error # Null

\* C10: every invocation ends with a response, never with an error
\* propagating to the caller; whenever an invocation that passed the
\* authorization check does not complete successfully (config error, store
\* error, bootstrap failure, failed retry) the response has status 500,
\* ok:false and the error's message as error; a request the authorization
\* check rejects is answered 401 with {error: 'Unauthorized'}, an object
\* without an ok field.
C10_AlwaysAnswers ==
    \A p \in Workers :
        /\ pc[p] # "threw"
        /\ pc[p] = "done" =>
              /\ res[p].status \in {200, 401, 500}
              /\ thrown[p] # Null <=> res[p].status = 500
              /\ res[p].status = 500 =>
                    /\ res[p].body.ok = FALSE
                    /\ res[p].body.error = thrown[p]
              /\ res[p].status = 200 =>
                    /\ res[p].body.ok = TRUE
                    /\ res[p].body.error = Null
              /\ res[p].status = 401 =>
                    res[p].body = [error |-> "Unauthorized"]

\* getPool() threw for want of a connection string and the handler answered
\* 500 with ok:false and the message
C10_Witness ==
    /\ pc[1] = "done"
    /\ thrown[1] = "DATABASE_URL or POSTGRES_URL is required"
    /\ res[1].status = 500
    /\ res[1].body.ok = FALSE
    /\ res[1].body.error = "DATABASE_URL or POSTGRES_URL is required"

-----------------------------------------------------------------------------
(* C11: what the client makes of status 429 *)

\* C11: a 429 is signalled by both client operations as the condition the
\* handler waits and retries on, RATE_LIMIT, unlike the error of the other
\* non-2xx statuses, and a call answered 429 does not by itself end the run
\* with a failure: the error of a getMeta call answered 429 is RATE_LIMIT,
\* that of one answered 500 is not, no run ends 500 after a getMeta call
\* answered 429, and none ends 500 with RATE_LIMIT as its error unless that
\* came from a retry.
C11_RateLimitedIsDistinct ==
    \A p \in Workers :
        /\ \A i \in 1..Len(calls[p]) :
              calls[p][i].result \in {"ok", CandleError(429), CandleError(500)}
        /\ (metaCalls[p] # <<>> /\ thrown[p] # Null) =>
              (thrown[p] = "RATE_LIMIT" <=> metaCalls[p][Len(metaCalls[p])] = 429)
        /\ (pc[p] = "done" /\ res[p].status = 500) =>
              /\ 429 \notin Range(metaCalls[p])
              /\ thrown[p] = "RATE_LIMIT" =>
                    /\ calls[p] # <<>>
                    /\ calls[p][Len(calls[p])].slept # 0

-----------------------------------------------------------------------------
(* C12: the cron secret *)

Mismatch(p) ==
    req[p].secret # <<>> /\ req[p].authorization # req[p].secret

\* what holds of the handler between line 39 and line 49
C12_Gate(p) ==
    /\ req[p] # NoRequest => pc[p] \in {"getPool", "done"}
    /\ (req[p] # NoRequest /\ Mismatch(p)) =>
          /\ pc[p] = "done"
          /\ res[p] = [status |-> 401, body |-> [error |-> "Unauthorized"]]
          /\ calls[p] = <<>>
          /\ metaCalls[p] = <<>>
          /\ registryRead[p] = <<>>
          /\ thrown[p] = Null
    /\ (req[p] # NoRequest /\ ~Mismatch(p)) =>
          /\ pc[p] = "getPool" \/ thrown[p] # Null
          /\ res[p].status # 401
    /\ (pc[p] = "done" /\ res[p].status = 401) =>
          req[p] # NoRequest /\ Mismatch(p)

\* C12: when a secret is configured and the authorization header is not
\* `Bearer <secret>` the handler answers 401 and does nothing else: no store
\* query, no upstream call, and the step leaves the cursor, the registry and
\* the candles as they were; with no secret configured, and with the
\* matching header, the request goes on to getPool() and is never answered
\* 401.
C12_AuthorizationGate ==
    /\ [](\A p \in Workers : C12_Gate(p))
    /\ [][\A p \in Workers :
             (pc'[p] = "done" /\ res'[p].status = 401) =>
                 UNCHANGED <<pairs, sync_cursor, candles, universe,
                             lastCall, clock, gate, starts>>]_vars

\* a request with a wrong bearer token was answered 401 while the store held
\* a registry, a cursor and candles
C12_Witness ==
    /\ pc[1] = "done"
    /\ res[1].status = 401
    /\ req[1].secret = <<"Bearer", "s3cret">>
    /\ req[1].authorization = <<"Bearer", "guess">>
    /\ pairs # {}
    /\ sync_cursor # <<>>
    /\ candles # {}

-----------------------------------------------------------------------------
(* C13: the bootstrap of an empty registry *)

ReadEmptyRegistry(p) == registryRead[p] = <<(<<>>)>>
\* the invocation is at or past line 59, where the cursor is read
AtOrPastCursorRead(p) ==
    \/ pc[p] \in {"getSyncState", "setSyncState", "fetch", "backoff", "persist"}
    \/ pc[p] = "done" /\ res[p].status = 200
    \/ pc[p] = "done" /\ res[p].status = 500 /\ "pairsFetched" \in DOMAIN out[p]

\* C13: an invocation calls getMeta at most once and only after it read an
\* empty registry; until upsertPairs has written every symbol getMeta
\* returned, the cursor is not read and no slice is computed; when the
\* cursor is read the invocation has called getMeta exactly once and the
\* registry holds exactly the symbols returned (3 entries for a universe of
\* 3 symbols).
C13_Bootstrap ==
    \A p \in Workers :
        /\ Len(metaCalls[p]) <= 1
        /\ metaCalls[p] # <<>> => ReadEmptyRegistry(p)
        /\ pc[p] \in {"getMeta", "upsertPairs"} =>
              /\ ReadEmptyRegistry(p)
              /\ batch[p] = <<>>
              /\ nextCursor[p] = 0
        /\ pc[p] = "upsertPairs" =>
              /\ metaCalls[p] = <<200>>
              /\ \A k \in 1..(pos[p].pj - 1) : symbols[p][k] \in pairs
        /\ (ReadEmptyRegistry(p) /\ AtOrPastCursorRead(p)) =>
              /\ metaCalls[p] = <<200>>
              /\ symbols[p] = universe
              /\ pairs = Range(universe)
              /\ Cardinality(pairs) = Len(universe)
              /\ Len(universe) = 3 => Cardinality(pairs) = 3
              /\ out[p].pairsFetched = Len(universe)

\* an invocation found the registry empty, got 3 symbols from getMeta and is
\* about to read the cursor with those 3 in the registry
C13_Witness ==
    /\ ReadEmptyRegistry(1)
    /\ pc[1] = "getSyncState"
    /\ metaCalls[1] = <<200>>
    /\ Len(universe) = 3
    /\ pairs = {1, 2, 3}

-----------------------------------------------------------------------------
(* hyperliquid.js: the pacing gate rateLimit(), for C14 and C19 *)

\* (mutant) half the remaining time
SleepHalfMs(elapsed) == (REST_MIN_MS - elapsed) \div 2
\* line 20: sleep(REST_MIN_MS - elapsed)
SleepMs(elapsed) == REST_MIN_MS - elapsed

\* lines 18-21, and line 21 too when there is nothing to wait: getMeta or
\* getCandleSnapshot calls rateLimit(), which reads the clock and lastCall
RateLimitEnter(p) ==
    /\ gate[p].at = "idle"
    /\ \E op \in {"meta", "candleSnapshot"} :
          LET now == clock
              elapsed == now - lastCall
          IN  IF elapsed < REST_MIN_MS
              THEN /\ gate' = [gate EXCEPT ![p] =
                                 [at |-> "sleep", wake |-> now + SleepMs(elapsed),
                                  op |-> op]]
                   /\ UNCHANGED <<lastCall, starts>>
              ELSE /\ lastCall' = clock
                   /\ starts' = Append(starts, clock)
                   /\ gate' = [gate EXCEPT ![p] =
                                 [at |-> "fetch", wake |-> 0, op |-> op]]
    /\ UNCHANGED <<universe, upBudget, crashBudget, pairs, sync_cursor,
                   candles, pc, symbols, cursor, batch, nextCursor, endMs,
                   allRows, pos, out, res, calls, passLog, lastKill, thrown,
                   before, metaCalls, registryRead, req, clock, probe>>

\* lines 20-21, and lines 29 or 51: the timer fires, lastCall is written and
\* fetch() starts the outbound call
RateLimitWake(p) ==
    /\ gate[p].at = "sleep"
    /\ clock >= gate[p].wake
    /\ lastCall' = clock
    /\ starts' = Append(starts, clock)
    /\ gate' = [gate EXCEPT ![p] = [@ EXCEPT !.at = "fetch", !.wake = 0]]
    /\ UNCHANGED <<universe, upBudget, crashBudget, pairs, sync_cursor,
                   candles, pc, symbols, cursor, batch, nextCursor, endMs,
                   allRows, pos, out, res, calls, passLog, lastKill, thrown,
                   before, metaCalls, registryRead, req, clock, probe>>

\* lines 29-37 or 51-65: the upstream answers, the client call returns
FetchReturns(p) ==
    /\ gate[p].at = "fetch"
    /\ gate' = [gate EXCEPT ![p] = GateIdle]
    /\ UNCHANGED <<universe, upBudget, crashBudget, pairs, sync_cursor,
                   candles, pc, symbols, cursor, batch, nextCursor, endMs,
                   allRows, pos, out, res, calls, passLog, lastKill, thrown,
                   before, metaCalls, registryRead, req, lastCall, clock,
                   starts, probe>>

\* time passes
Tick ==
    /\ \E d \in {TickMs, 2 * TickMs} :
          /\ clock + d <= MaxClock
          /\ clock' = clock + d
    /\ UNCHANGED <<universe, upBudget, crashBudget, pairs, sync_cursor,
                   candles, pc, symbols, cursor, batch, nextCursor, endMs,
                   allRows, pos, out, res, calls, passLog, lastKill, thrown,
                   before, metaCalls, registryRead, req, lastCall, gate,
                   starts, probe>>

InitPacing ==
    /\ universe = <<>>
    /\ upBudget = 0
    /\ crashBudget = 0
    /\ pairs = {}
    /\ sync_cursor = <<>>
    /\ candles = {}
    /\ IdleWorkers
    /\ probe = <<>>

\* one invocation at a time: its client calls come one after another
NextPacing ==
    \/ RateLimitEnter(1) \/ RateLimitWake(1) \/ FetchReturns(1) \/ Tick

SpecPacing == InitPacing /\ [][NextPacing]_vars

\* two invocations in one process: their client calls interleave at the
\* awaits
NextPacingShared ==
    \/ \E p \in Workers :
          RateLimitEnter(p) \/ RateLimitWake(p) \/ FetchReturns(p)
    \/ Tick

SpecPacingShared == InitPacing /\ [][NextPacingShared]_vars

-----------------------------------------------------------------------------
(* C14: the pacing gate, calls one after another *)

\* C14: when the client calls of a process are issued one after another
\* (getMeta or getCandleSnapshot, the retry after a back-off included),
\* every outbound call starts at least REST_MIN_MS = 1200 ms after the start
\* of the one before it, and lastCall is the start of the last one.
C14_PacingGate ==
    /\ \A i \in 2..Len(starts) : starts[i] - starts[i - 1] >= REST_MIN_MS
    /\ starts # <<>> => lastCall = starts[Len(starts)]
    /\ gate[1].at = "sleep" =>
          /\ starts # <<>>
          /\ gate[1].wake >= starts[Len(starts)] + REST_MIN_MS

\* the third call of the process is held back by the gate
C14_Witness ==
    /\ Len(starts) = 2
    /\ gate[1].at = "sleep"
    /\ gate[1].wake > clock
    /\ gate[1].op = "candleSnapshot"

-----------------------------------------------------------------------------
(* C19: the pacing gate shared by two invocations *)

\* C19: when two invocations of one process share lastCall, any two outbound
\* calls of the process start at least REST_MIN_MS = 1200 ms apart, however
\* their reads of lastCall, sleeps and writes of lastCall interleave.
C19_SharedPacingGate ==
    \A i, j \in 1..Len(starts) :
        i < j => starts[j] - starts[i] >= REST_MIN_MS

-----------------------------------------------------------------------------
(* Lines 72-85 on their own: one candleSnapshot answer is normalized and
   persisted *)

MaxAnswerPoints == 2

\* the fields of a raw point: T and t absent, null or a number; o a number,
\* a numeric string, null, absent, a string that is no number, or true
RawPoints ==
    [T : {JsUndefined, JsNull, JsNum(0), JsNum(9)},
     t : {JsUndefined, JsNum(19)},
     o : {JsNum(100), JsStr(<<1, 0, 0>>), JsNull, JsUndefined,
          JsStr(<<10, 11>>), JsBool(1)},
     h : {JsStr(<<1, 0, 1>>)}, l : {JsStr(<<9, 9>>)},
     c : {JsStr(<<1, 0, 0>>)}, v : {JsStr(<<1>>)}]
RawAnswers == UNION {[1..n -> RawPoints] : n \in 0..MaxAnswerPoints}

InitNormalize ==
    /\ universe = <<1>>
    /\ upBudget = 0
    /\ crashBudget = 0
    /\ pairs = {1}
    /\ sync_cursor = <<>>
    /\ candles = {}
    /\ IdleWorkers
    /\ probe = <<>>

\* lines 71-85: getCandleSnapshot(1, '1m', ..) answers `raw`, kept in probe,
\* and the loop of line 72 adds its rows to allRows
ReceiveAnswer(p) ==
    /\ pc[p] = "idle"
    /\ \E raw \in RawAnswers :
          /\ probe' = raw
          /\ allRows' = [allRows EXCEPT ![p] = Normalize(1, "1m", raw)]
    /\ batch' = [batch EXCEPT ![p] = <<1>>]
    /\ pos' = [pos EXCEPT ![p] = NoPos]
    /\ pc' = [pc EXCEPT ![p] = "persist"]
    /\ out' = [out EXCEPT ![p] = [ok |-> TRUE, pairsSynced |-> 0,
                                  candlesInserted |-> 0, error |-> Null]]
    /\ before' = [before EXCEPT ![p] = candles]
    /\ UNCHANGED <<universe, upBudget, crashBudget, pairs, sync_cursor,
                   candles, symbols, cursor, nextCursor, endMs, res, calls,
                   passLog, lastKill, thrown, metaCalls, registryRead, req,
                   lastCall, clock, gate, starts>>

NextNormalize == ReceiveAnswer(1) \/ PersistChunk(1) \/ Report(1)

SpecNormalize == InitNormalize /\ [][NextNormalize]_vars

Present(x) == x # JsNull /\ x # JsUndefined
HasTimestamp(c) == Present(c.T) \/ Present(c.t)
Resolved(c) == IF Present(c.T) THEN c.T ELSE c.t
\* the raw points of the answer that have a timestamp, in their order
Timestamped(raw) == SelectSeq(raw, HasTimestamp)

-----------------------------------------------------------------------------
(* C15: the timestamp of a point *)

\* C15: of the raw points of an answer, those with neither T nor t add no
\* row and no row without a timestamp is ever in the candles table; every
\* other point adds exactly one row, in the order of the answer, whose
\* ts_ms is T when T is present and t otherwise, whatever comes before or
\* after it in the answer; when the answer is persisted, the table holds one
\* row per timestamped point.
C15_TimestampNormalization ==
    \A p \in Workers :
        pc[p] \in {"persist", "done"} =>
            LET kept == Timestamped(probe)
            IN  /\ Len(allRows[p]) = Len(kept)
                /\ \A k \in 1..Len(kept) :
                      /\ allRows[p][k].ts_ms = Resolved(kept[k])
                      /\ allRows[p][k].symbol = 1
                      /\ allRows[p][k].interval = "1m"
                /\ \A r \in candles : Present(r.ts_ms) /\ r \in Range(allRows[p])
                /\ (pc[p] = "done" /\ res[p].status = 200) =>
                      /\ candles = Range(allRows[p])
                      /\ out[p].candlesInserted = Len(kept)

\* an answer of a point with neither timestamp followed by a point whose T
\* is 0 and whose t is 19 was persisted: one row, with ts_ms 0
C15_Witness ==
    /\ pc[1] = "done"
    /\ res[1].status = 200
    /\ Len(probe) = 2
    /\ ~HasTimestamp(probe[1])
    /\ probe[2].T = JsNum(0)
    /\ probe[2].t = JsNum(19)
    /\ Cardinality(candles) = 1
    /\ \A r \in candles : r.ts_ms = JsNum(0)

-----------------------------------------------------------------------------
(* C16: the numbers of a point *)

\* a JSON value that is a number, or a string that denotes one
Numeric(v) == v[1] = "num" \/ (v[1] = "str" /\ IsDigits(v[2]))

\* C16: normalizing an answer raises no error; in the row of a point, open
\* is 0 whenever the point's o is not numeric (null, absent, a non-numeric
\* string, a boolean), and the number o denotes otherwise.
C16_NumericCoercion ==
    \A p \in Workers :
        pc[p] \in {"persist", "done"} =>
            LET kept == Timestamped(probe)
            IN  /\ Len(allRows[p]) = Len(kept)
                /\ \A k \in 1..Len(kept) :
                      IF Numeric(kept[k].o)
                      THEN allRows[p][k].open = 100
                      ELSE allRows[p][k].open = 0

-----------------------------------------------------------------------------
(* C17: two invocations at once *)

\* the store holds a registry of n symbols and a cursor at the start of one
\* of its slices; two invocations run, each up to the write of its next
\* cursor, interleaved at the awaits, and may be killed
InitRace ==
    /\ \E n \in {1, SmallUniverse, PAIRS_PER_RUN, PAIRS_PER_RUN + 1, MaxSymbols} :
          \E c \in {0, PAIRS_PER_RUN, 2 * PAIRS_PER_RUN} :
              /\ c < n
              /\ universe = Ascending(n)
              /\ pairs = 1..n
              /\ sync_cursor = <<StringOf(c)>>
              /\ probe = [n |-> n, c |-> c]
    /\ upBudget = 0
    /\ crashBudget = MaxCrashes
    /\ candles = {}
    /\ IdleWorkers

NextRace ==
    \E p \in Workers :
        \/ Invoke(p) \/ GetPool(p) \/ InitDb(p) \/ GetAllPairs(p)
        \/ GetSyncState(p) \/ SetSyncState(p) \/ Kill(p)

SpecRace == InitRace /\ [][NextRace]_vars

\* both invocations have written their next cursor
BothWrote == pc[1] = "fetch" /\ pc[2] = "fetch"

\* C17: in every interleaving of two invocations over a fixed registry of
\* N > 0 symbols the cursor row stays the decimal string of a number in
\* [0, N) and the registry stays as it was; two invocations that read the
\* same cursor C select the same slice symbols[C : C+K], and the cursor they
\* leave is advanced by one batch only: C plus the length of that slice, or
\* 0 at the end of the list.  (That this happens is shown by the witness.)
C17_CursorRace ==
    /\ pairs = 1..probe.n
    /\ \E c \in 0..(probe.n - 1) : sync_cursor = <<Decimal(c)>>
    /\ (BothWrote /\ cursor[1] = cursor[2]) =>
          /\ batch[1] = batch[2]
          /\ batch[1] = SubSeq(OrderBySymbol(pairs), cursor[1] + 1,
                               Min(cursor[1] + PAIRS_PER_RUN, probe.n))
          /\ sync_cursor =
                <<Decimal(IF cursor[1] + Len(batch[1]) >= probe.n THEN 0
                          ELSE cursor[1] + Len(batch[1]))>>

\* both invocations read cursor 0 of a registry of 50 symbols before either
\* wrote, both selected symbols[0:24], and the cursor is 24, not 48
C17_Witness ==
    /\ BothWrote
    /\ probe.n = MaxSymbols
    /\ probe.c = 0
    /\ cursor[1] = 0
    /\ cursor[2] = 0
    /\ batch[1] = batch[2]
    /\ Len(batch[1]) = PAIRS_PER_RUN
    /\ sync_cursor = <<Decimal(PAIRS_PER_RUN)>>

-----------------------------------------------------------------------------
(* C18: the slices of the pass that starts with the bootstrap *)

\* the symbols of the slices selected so far in the current pass
Processed == UNION {Range(passLog[i].batch) : i \in 1..Len(passLog)}

\* C18: when the pass was started by an invocation that bootstrapped the
\* registry, that invocation sliced the list later invocations read from the
\* registry (the registered symbols in ORDER BY symbol order), and once
\* ceil(N/K) invocations have selected their slices every registered symbol
\* has been in one of them.
C18_BootstrapSliceOrder ==
    (passLog # <<>> /\ passLog[1].boot) =>
        LET n == Cardinality(pairs)
            syms == OrderBySymbol(pairs)
        IN  /\ passLog[1].batch = SubSeq(syms, 1, Min(PAIRS_PER_RUN, n))
            /\ Len(passLog) >= PassLength(n) => pairs \subseteq Processed

-----------------------------------------------------------------------------
(* C20: what an invocation may do to the registry *)

\* the invocation read a registry with at least one entry
ReadNonEmptyRegistry(p) ==
    registryRead[p] # <<>> /\ registryRead[p][1] # <<>>

\* the step calls getMeta or writes the registry
TouchesRegistry ==
    \/ pairs' # pairs
    \/ \E p \in Workers : Len(metaCalls'[p]) > Len(metaCalls[p])

\* C20: no step removes a registry entry; a step that adds one, or in which
\* getMeta is called or answers, belongs to an invocation that read an
\* empty registry and is at lines 54-55; an invocation that read a non-empty
\* registry has not called getMeta, and from its read to its answer, failed
\* fetches, store errors and all, the registry is the one it read.
C20_RegistryFrame ==
    /\ [](\A p \in Workers :
            ReadNonEmptyRegistry(p) =>
                /\ metaCalls[p] = <<>>
                /\ pc[p] \notin {"getMeta", "upsertPairs"}
                /\ OrderBySymbol(pairs) = registryRead[p][1])
    /\ [][/\ pairs \subseteq pairs'
          /\ TouchesRegistry =>
                \E p \in Workers :
                    /\ ReadEmptyRegistry(p)
                    /\ pc[p] \in {"getMeta", "upsertPairs"}]_vars

\* an invocation that read a registry of 50 symbols has answered 200 after a
\* full fetch loop, and the registry is those 50 symbols
C20_Witness ==
    /\ ReadNonEmptyRegistry(1)
    /\ Len(registryRead[1][1]) = MaxSymbols
    /\ pc[1] = "done"
    /\ res[1].status = 200
    /\ calls[1] # <<>>
    /\ OrderBySymbol(pairs) = registryRead[1][1]

====
